---- MODULE Spec2Model ----
(***************************************************************************)
(* A model of fetch_spice.py: one invocation of main(spice, start_ts,      *)
(* end_ts, filename) as a pipeline of steps (fetch, parse, per-variable    *)
(* assembly, dataset construction, position lookup, metadata, encoding,    *)
(* write), plus the environment invoking the program again.                *)
(*                                                                         *)
(* Numbers are records [kind, m, e] standing for m / 10^e, with kind one   *)
(* of "int", "float", "nan", so that Python's int/float distinction, NaN   *)
(* and str() are modelled by what they do.  A nanosecond timestamp is the  *)
(* record [sec, nsec] (the value sec * 10^9 + nsec).                       *)
(***************************************************************************)
EXTENDS Integers, Sequences, FiniteSets, TLC

VARIABLES
    args,         \* [spice, start_ts, end_ts, filename]: main's parameters
    pc,           \* the statement of main the run is at
    response,     \* the body requests.get returned
    json_data,    \* the decoded payload (line 16)
    vi,           \* index into variables of the loop of line 31
    data_arrays,  \* the dict of line 29: variable name -> DataArray
    ds,           \* the xarray Dataset (lines 48-98)
    encoding,     \* the dict of lines 103-109
    outcome,      \* how the run ended: "running", "ok", "exit0" or an exception name
    stdout,       \* the lines printed, over all runs
    disk,         \* <<>> or <<file>>: what is stored at args.filename
    stages,       \* the steps this run has executed, in order
    run,          \* the number of the current invocation
    history       \* one record per finished invocation

vars == <<args, pc, response, json_data, vi, data_arrays, ds, encoding,
          outcome, stdout, disk, stages, run, history>>

----
\* Bounds of the model.

\* Number of times the same invocation is made.
MaxRuns == 2

\* Most auxiliary position samples in a payload.
MaxAux == 2

\* The timestamps (seconds since the epoch) a payload may carry.
TimeStamps == {1704067200, 1709251199}

\* The values datetime.datetime.now(datetime.UTC) may return.
ClockValues == {1762300800, 1762300860}

----
\* Numbers.

Int_(m) == [kind |-> "int", m |-> m, e |-> 0]
Flt(m, e) == [kind |-> "float", m |-> m, e |-> e]
NaN == [kind |-> "nan", m |-> 0, e |-> 0]

RECURSIVE Pow10(_)
Pow10(n) == IF n = 0 THEN 1 ELSE 10 * Pow10(n - 1)

Abs(x) == IF x < 0 THEN -x ELSE x

\* n as a decimal string of at least w digits (n >= 0).
RECURSIVE ZeroPad(_, _)
ZeroPad(n, w) ==
    IF w <= 1 /\ n < 10 THEN ToString(n)
    ELSE ZeroPad(n \div 10, w - 1) \o ToString(n % 10)

\* The shortest fraction: trailing zeros dropped, one digit kept.
RECURSIVE StripZeros(_, _)
StripZeros(frac, e) ==
    IF e > 1 /\ frac % 10 = 0 THEN StripZeros(frac \div 10, e - 1)
    ELSE <<frac, e>>

\* Python's str() of an int or a float.
PyStr(x) ==
    CASE x.kind = "int" -> ToString(x.m)
      [] x.kind = "nan" -> "nan"
      [] OTHER ->
            LET a == Abs(x.m)
                p == Pow10(x.e)
                f == IF x.e = 0 THEN <<0, 1>> ELSE StripZeros(a % p, x.e)
            IN  (IF x.m < 0 THEN "-" ELSE "")
                    \o ToString(a \div p) \o "." \o ZeroPad(f[1], f[2])

\* float(v) for a JSON number or null, as np.array(..., dtype=float) does.
ToFloat(v) ==
    IF v.null THEN NaN ELSE Flt(v.num.m, v.num.e)

----
\* Time.

\* datetime64[s] -> datetime64[ns].
ToNs(t) == [sec |-> t, nsec |-> 0]

\* The civil date of a day count since 1970-01-01.
CivilFromDays(days) ==
    LET z == days + 719468
        era == z \div 146097
        doe == z - era * 146097
        yoe == (doe - doe \div 1460 + doe \div 36524 - doe \div 146096) \div 365
        doy == doe - (365 * yoe + yoe \div 4 - yoe \div 100)
        mp == (5 * doy + 2) \div 153
        d == doy - (153 * mp + 2) \div 5 + 1
        m == IF mp < 10 THEN mp + 3 ELSE mp - 9
        y == yoe + era * 400 + (IF m <= 2 THEN 1 ELSE 0)
    IN  [y |-> y, m |-> m, d |-> d]

\* An instant in seconds as YYYY-MM-DDTHH:MM:SSZ.
FormatSeconds(s) ==
    LET c == CivilFromDays(s \div 86400)
        r == s % 86400
    IN  ZeroPad(c.y, 4) \o "-" \o ZeroPad(c.m, 2) \o "-" \o ZeroPad(c.d, 2)
            \o "T" \o ZeroPad(r \div 3600, 2) \o ":" \o ZeroPad((r % 3600) \div 60, 2)
            \o ":" \o ZeroPad(r % 60, 2) \o "Z"

\* np.datetime_as_string(t, timezone='UTC', unit='s') of a nanosecond instant.
DatetimeAsString(t) == FormatSeconds(t.sec)

\* datetime.datetime.now(datetime.UTC).strftime("%Y-%m-%dT%H:%M:%SZ")
Strftime(now) == FormatSeconds(now)

----
\* The program's tables.

\* Line 24.
variables ==
    <<"surface_snow_thickness", "air_temperature", "relative_humidity", "air_pressure">>

VarSet == {variables[i] : i \in 1..Len(variables)}

\* Lines 25-28.
long_names ==
    [v \in VarSet |->
        CASE v = "surface_snow_thickness" -> "snow thickness measured at station"
          [] v = "air_temperature" -> "air temperature measured at station"
          [] v = "relative_humidity" -> "relative humidity measured at station"
          [] OTHER -> "air pressure measured at station"]

\* Lines 52-56.
stored_positions ==
    [s \in {"SPICE34", "SPICE35", "SPICE36", "SPICE37", "SPICE38"} |->
        CASE s = "SPICE34" -> <<Flt(7708636, 5), Flt(1562725, 5)>>
          [] s = "SPICE35" -> <<Flt(7706198, 5), Flt(1520614, 5)>>
          [] s = "SPICE36" -> <<Flt(786765, 4), Flt(120399, 4)>>
          [] s = "SPICE37" -> <<Int_(-999), Int_(-999)>>
          [] OTHER -> <<Flt(7751715, 5), Flt(1439992, 5)>>]

\* Lines 100-101.
float_type == [dtype |-> "float32"]
integer_type == [dtype |-> "int32"]

\* Lines 103-109 without the entry for lon.
EncodingDictNoLon ==
    [f \in VarSet \cup {"time", "lat"} |->
        IF f = "time" THEN integer_type ELSE float_type]

\* Lines 103-109.
EncodingDict ==
    [f \in VarSet \cup {"time", "lat", "lon"} |->
        IF f = "time" THEN integer_type ELSE float_type]

\* Line 111: unlimited_dims='time'.
UnlimitedDims == {"time"}

----
\* The inputs: command lines and response bodies.

\* The command lines argparse accepts (lines 115-126).
ArgChoices ==
    [spice : DOMAIN stored_positions,
     start_ts : {"2024-01-01T00:00:00Z"},
     end_ts : {"2024-03-01T00:00:00Z"},
     filename : {"spice.nc"}]

\* The time axes of a series: strictly increasing sequences of timestamps.
Axes ==
    {a \in UNION {[1..n -> TimeStamps] : n \in 0..Cardinality(TimeStamps)} :
        \A i \in 1..(Len(a) - 1) : a[i] < a[i + 1]}

NoJson == [null |-> TRUE, num |-> Int_(0)]
JsonNum(m) == [null |-> FALSE, num |-> Int_(m)]

\* The sample list of one variable: null at the stamp nullAt, a reading elsewhere.
Samples(axis, k, nullAt) ==
    [i \in 1..Len(axis) |->
        [t |-> axis[i],
         v |-> IF axis[i] = nullAt THEN NoJson ELSE JsonNum(10 * k + i)]]

\* A JSON document: per variable a sample list or no key at all, a metadata
\* block whose entry for the variable noFill has no '_FillValue' key, and the
\* auxiliary position samples aux, which main never reads.
Document(ax, nullAt, noFill, aux) ==
    [aux |-> aux,
     series |->
        [v \in VarSet |->
            LET k == CHOOSE i \in 1..Len(variables) : variables[i] = v
            IN  IF ax[k] = <<0>> THEN [present |-> FALSE, items |-> <<>>]
                ELSE [present |-> TRUE, items |-> Samples(ax[k], k, nullAt)]],
     metadata |->
        [v \in VarSet |->
            [units |-> IF v = "air_temperature" THEN "degC" ELSE "1",
             hasFill |-> v # noFill,
             fill |-> Int_(-999)]]]

EmptyDocument == Document([k \in 1..Len(variables) |-> <<0>>], 0, "none", <<>>)

\* <<0>> stands for "the key is absent".
Documents ==
    {Document(ax, nullAt, noFill, <<>>) :
        ax \in [1..Len(variables) -> Axes \cup {<<0>>}],
        nullAt \in {0} \cup TimeStamps,
        noFill \in {"none"} \cup VarSet}

NonJsonTexts == {"0 results", "0 results ", "", "<html>Bad Gateway</html>"}

Responses ==
    {[isJson |-> FALSE, text |-> t, doc |-> EmptyDocument] : t \in NonJsonTexts}
        \cup {[isJson |-> TRUE, text |-> "{...}", doc |-> d] : d \in Documents}

NoResponse == [isJson |-> FALSE, text |-> "", doc |-> EmptyDocument]

----
\* The steps of main.

\* Line 16: json.loads(response.text).
JsonLoads(r) ==
    IF r.isJson THEN [ok |-> TRUE, value |-> r.doc]
    ELSE [ok |-> FALSE, value |-> EmptyDocument]

\* Line 18 with the sentinel misspelt.
IsZeroResultsTypo(text) == text = "0 result"

\* Line 18 with the comparison made after stripping white space.
IsZeroResultsStripped(text) == text \in {"0 results", "0 results "}

\* Line 18.
IsZeroResults(text) == text = "0 results"

\* Line 19.
NoDataMessage(a) ==
    a.spice \o " does not have any data for the provided date range "
        \o a.start_ts \o "-" \o a.end_ts \o "!"

\* Lines 34-35 reading json_data.get(variable, []).
GetSeriesOrEmpty(doc, variable) ==
    [ok |-> TRUE, items |-> doc.series[variable].items]

\* Lines 34-35: json_data[variable], a KeyError when the key is absent.
GetSeries(doc, variable) ==
    IF doc.series[variable].present
    THEN [ok |-> TRUE, items |-> doc.series[variable].items]
    ELSE [ok |-> FALSE, items |-> <<>>]

\* Line 34.
TimeArray(items) == [i \in 1..Len(items) |-> ToNs(items[i].t)]

\* Line 35.
DataArrayValues(items) == [i \in 1..Len(items) |-> ToFloat(items[i].v)]

\* Line 45: json_data['metadata'][variable]['v']['_FillValue'].
GetFillValue(doc, variable) ==
    IF doc.metadata[variable].hasFill
    THEN [ok |-> TRUE, value |-> doc.metadata[variable].fill]
    ELSE [ok |-> FALSE, value |-> Int_(0)]

\* Lines 37-43.
NewDataArray(doc, variable, items) ==
    [time |-> TimeArray(items),
     data |-> DataArrayValues(items),
     attrs |-> [long_name |-> long_names[variable],
                standard_name |-> variable,
                units |-> doc.metadata[variable].units,
                coverage_content_type |-> "physicalMeasurement"]]

\* Line 46.
WithFillValue(arr, fv) ==
    [arr EXCEPT !.attrs =
        [long_name |-> arr.attrs.long_name,
         standard_name |-> arr.attrs.standard_name,
         units |-> arr.attrs.units,
         coverage_content_type |-> arr.attrs.coverage_content_type,
         _FillValue |-> fv]]

Before(a, b) == a.sec < b.sec \/ (a.sec = b.sec /\ a.nsec < b.nsec)

RECURSIVE SortedSeq(_)
SortedSeq(S) ==
    IF S = {} THEN <<>>
    ELSE LET lo == CHOOSE x \in S : \A y \in S : x = y \/ Before(x, y)
         IN  <<lo>> \o SortedSeq(S \ {lo})

Range(s) == {s[i] : i \in 1..Len(s)}

\* Line 48: the outer join of the variables' time indexes.
JoinedIndex(arrays) ==
    LET indexes == {arrays[v].time : v \in DOMAIN arrays}
    IN  IF Cardinality(indexes) = 1 THEN CHOOSE ix \in indexes : TRUE
        ELSE SortedSeq(UNION {Range(ix) : ix \in indexes})

\* Line 48: one variable on the joined index, NaN where it has no sample.
Reindex(arr, index) ==
    IF arr.time = index THEN arr.data
    ELSE [i \in 1..Len(index) |->
            IF \E j \in 1..Len(arr.time) : arr.time[j] = index[i]
            THEN arr.data[CHOOSE j \in 1..Len(arr.time) : arr.time[j] = index[i]]
            ELSE NaN]

NoDataset ==
    [time |-> <<>>, time_attrs |-> <<>>, data_vars |-> <<>>,
     lat |-> <<>>, lon |-> <<>>, attrs |-> <<>>]

\* Lines 48-49.
NewDataset(arrays) ==
    LET index == JoinedIndex(arrays)
    IN  [time |-> index,
         time_attrs |-> <<[standard_name |-> "time", long_name |-> "time of observation"]>>,
         data_vars |->
            [v \in DOMAIN arrays |->
                [data |-> Reindex(arrays[v], index), attrs |-> arrays[v].attrs]],
         lat |-> <<>>, lon |-> <<>>, attrs |-> <<>>]

\* Line 59 reading index 0 again.
LookupLonIndex0(spice) == stored_positions[spice][1]

\* Lines 58-59.
LookupLat(spice) == stored_positions[spice][1]
LookupLon(spice) == stored_positions[spice][2]

\* Lines 61-65.
AssignPosition(d, lat, lon) ==
    [d EXCEPT
        !.lat = <<[value |-> lat,
                   attrs |-> [units |-> "degree_north", standard_name |-> "latitude"]]>>,
        !.lon = <<[value |-> lon,
                   attrs |-> [units |-> "degree_east", standard_name |-> "longitude"]]>>]

\* Line 83.
TimeCoverageStart(d) == DatetimeAsString(d.time[1])

\* Line 84 reading ds.time[0].
TimeCoverageEndFirst(d) == DatetimeAsString(d.time[1])

\* Line 84.
TimeCoverageEnd(d) == DatetimeAsString(d.time[Len(d.time)])

\* Lines 68-98 (the fixed texts of the summary, keywords and creator are left out).
GlobalAttrs(d, spice, lat, lon, now) ==
    [title |-> "Measurement data from " \o spice \o " station",
     keywords_vocabulary |-> "GCMD Science Keywords",
     geospatial_lat_min |-> PyStr(lat),
     geospatial_lat_max |-> PyStr(lat),
     geospatial_lon_min |-> PyStr(lon),
     geospatial_lon_max |-> PyStr(lon),
     time_coverage_start |-> TimeCoverageStart(d),
     time_coverage_end |-> TimeCoverageEnd(d),
     Conventions |-> "CF-1.11, ACDD-1.3",
     history |-> Strftime(now) \o ", created file.",
     date_created |-> Strftime(now),
     project |-> "CRIOS",
     featureType |-> "timeSeries"]

----
\* The state machine.

\* The exit status of the process for each way a run ends.
ExitStatus(out) == IF out \in {"ok", "exit0"} THEN 0 ELSE 1

\* The record kept of a finished run.
RunRecord(out, st, dk, printed) ==
    [outcome |-> out, status |-> ExitStatus(out), stages |-> st,
     disk |-> dk, printed |-> printed]

\* An exception caught and dropped, the run going on to the write.
RaiseSwallowed(exc) ==
    /\ pc' = "write"
    /\ UNCHANGED <<outcome, history>>

\* An exception no handler catches: main is left at once (no try block encloses
\* lines 24-111).
Raise(exc) ==
    /\ pc' = "done"
    /\ outcome' = exc
    /\ history' = Append(history, RunRecord(exc, stages', disk, <<>>))

Init ==
    /\ args \in ArgChoices
    /\ pc = "fetch"
    /\ response = NoResponse
    /\ json_data = EmptyDocument
    /\ vi = 1
    /\ data_arrays = <<>>
    /\ ds = NoDataset
    /\ encoding = <<>>
    /\ outcome = "running"
    /\ stdout = <<>>
    /\ disk = <<>>
    /\ stages = <<>>
    /\ run = 1
    /\ history = <<>>

\* Lines 12-13: the one request of a run.  A repeated invocation gets the same body.
Fetch ==
    /\ pc = "fetch"
    /\ \E r \in (IF run = 1 THEN Responses ELSE {response}) : response' = r
    /\ pc' = "parse"
    /\ stages' = Append(stages, "fetch")
    /\ UNCHANGED <<args, json_data, vi, data_arrays, ds, encoding, outcome,
                   stdout, disk, run, history>>

\* Lines 15-22.
Parse ==
    /\ pc = "parse"
    /\ stages' = Append(stages, "parse")
    /\ LET got == JsonLoads(response)
       IN  IF got.ok
           THEN /\ json_data' = got.value
                /\ pc' = "assemble"
                /\ UNCHANGED <<outcome, stdout, history>>
           ELSE IF IsZeroResults(response.text)
           THEN /\ stdout' = Append(stdout, NoDataMessage(args))
                /\ pc' = "done"
                /\ outcome' = "exit0"
                /\ history' = Append(history,
                        RunRecord("exit0", stages', disk, <<NoDataMessage(args)>>))
                /\ UNCHANGED json_data
           ELSE /\ Raise("JSONDecodeError")
                /\ UNCHANGED <<json_data, stdout>>
    /\ UNCHANGED <<args, response, vi, data_arrays, ds, encoding, disk, run>>

\* Lines 31-46: one iteration of the loop over variables.
AssembleVariable ==
    /\ pc = "assemble"
    /\ vi <= Len(variables)
    /\ stages' = Append(stages, "variable")
    /\ LET variable == variables[vi]
           got == GetSeries(json_data, variable)
           arr == NewDataArray(json_data, variable, got.items)
           fv == GetFillValue(json_data, variable)
       IN  IF ~got.ok
           THEN /\ Raise("KeyError")
                /\ UNCHANGED <<vi, data_arrays>>
           ELSE IF ~fv.ok
           THEN /\ data_arrays' = (variable :> arr) @@ data_arrays
                /\ Raise("KeyError")
                /\ UNCHANGED vi
           ELSE /\ data_arrays' = (variable :> WithFillValue(arr, fv.value)) @@ data_arrays
                /\ vi' = vi + 1
                /\ pc' = IF vi = Len(variables) THEN "dataset" ELSE "assemble"
                /\ UNCHANGED <<outcome, history>>
    /\ UNCHANGED <<args, response, json_data, ds, encoding, stdout, disk, run>>

\* Lines 48-49.
BuildDataset ==
    /\ pc = "dataset"
    /\ stages' = Append(stages, "dataset")
    /\ ds' = NewDataset(data_arrays)
    /\ pc' = "position"
    /\ UNCHANGED <<args, response, json_data, vi, data_arrays, encoding, outcome,
                   stdout, disk, run, history>>

\* Lines 52-65.
ResolvePosition ==
    /\ pc = "position"
    /\ stages' = Append(stages, "position")
    /\ ds' = AssignPosition(ds, LookupLat(args.spice), LookupLon(args.spice))
    /\ pc' = "metadata"
    /\ UNCHANGED <<args, response, json_data, vi, data_arrays, encoding, outcome,
                   stdout, disk, run, history>>

\* Lines 68-98: ds.time[0] of an empty axis is an IndexError.  The locals lat and
\* lon hold what lines 61 and 64 stored in ds.
ComposeMetadata ==
    /\ pc = "metadata"
    /\ stages' = Append(stages, "metadata")
    /\ IF Len(ds.time) = 0
       THEN /\ Raise("IndexError")
            /\ UNCHANGED ds
       ELSE /\ \E now \in ClockValues :
                 ds' = [ds EXCEPT !.attrs =
                    <<GlobalAttrs(ds, args.spice, ds.lat[1].value,
                                  ds.lon[1].value, now)>>]
            /\ pc' = "encoding"
            /\ UNCHANGED <<outcome, history>>
    /\ UNCHANGED <<args, response, json_data, vi, data_arrays, encoding, stdout,
                   disk, run>>

\* Lines 100-109.
DeclareEncoding ==
    /\ pc = "encoding"
    /\ stages' = Append(stages, "encoding")
    /\ encoding' = EncodingDict
    /\ pc' = "write"
    /\ UNCHANGED <<args, response, json_data, vi, data_arrays, ds, outcome, stdout,
                   disk, run, history>>

\* Line 111: the dataset, its encoding and the unlimited dimensions go to the writer.
Write ==
    /\ pc = "write"
    /\ stages' = Append(stages, "write")
    /\ disk' = <<[path |-> args.filename, dataset |-> ds, encoding |-> encoding,
                  unlimited_dims |-> UnlimitedDims]>>
    /\ pc' = "done"
    /\ outcome' = "ok"
    /\ history' = Append(history, RunRecord("ok", stages', disk', <<>>))
    /\ UNCHANGED <<args, response, json_data, vi, data_arrays, ds, encoding, stdout, run>>

\* The same command line is run again: a new process, the same disk.
Rerun ==
    /\ pc = "done"
    /\ run < MaxRuns
    /\ run' = run + 1
    /\ pc' = "fetch"
    /\ json_data' = EmptyDocument
    /\ vi' = 1
    /\ data_arrays' = <<>>
    /\ ds' = NoDataset
    /\ encoding' = <<>>
    /\ outcome' = "running"
    /\ stages' = <<>>
    /\ UNCHANGED <<args, response, stdout, disk, history>>

Next ==
    \/ Fetch
    \/ Parse
    \/ AssembleVariable
    \/ BuildDataset
    \/ ResolvePosition
    \/ ComposeMetadata
    \/ DeclareEncoding
    \/ Write
    \/ Rerun

Spec == Init /\ [][Next]_vars

----
\* The weighted-average position variant.  Its code is not part of
\* fetch_spice.py; it is modelled from the specification: sections 3 and 4.3
\* for the computation, section 9 for the missing guard against zero radii.

\* A position sample: latitude and longitude in hundredths of a degree, and the
\* accuracy radius.
AuxSampleSet ==
    [latitude : {1000}, longitude : {2000}, cep : {0, 1, 2}]
        \cup [latitude : {1600}, longitude : {2600}, cep : {0, 1, 2}]

AuxChoices == UNION {[1..n -> AuxSampleSet] : n \in 0..MaxAux}

\* Payloads for a station without a fixed position: one shared axis with at least
\* one stamp, every fill value declared, and the auxiliary samples.
DynResponses ==
    {[isJson |-> TRUE, text |-> "{...}",
      doc |-> Document([k \in 1..Len(variables) |-> ax], 0, "none", aux)] :
        ax \in Axes \ {<<>>}, aux \in AuxChoices}

RECURSIVE SumOver(_, _)
SumOver(f, n) == IF n = 0 THEN 0 ELSE f[n] + SumOver(f, n - 1)

RECURSIVE ProductOver(_, _)
ProductOver(f, n) == IF n = 0 THEN 1 ELSE f[n] * ProductOver(f, n - 1)

\* The quotient n / d rounded to the nearest integer (n, d > 0).
RoundDiv(n, d) == (2 * n + d) \div (2 * d)

\* sum(x * w) with w = (1 / cep) / sum(1 / cep), rounded to 2 decimals.  With a
\* zero radius 1 / cep is inf, its weight inf / inf is nan, and so is the sum.
WeightedMean(xs, ceps) ==
    IF \E i \in 1..Len(ceps) : ceps[i] = 0 THEN NaN
    ELSE LET p == ProductOver(ceps, Len(ceps))
             inv == [i \in 1..Len(ceps) |-> p \div ceps[i]]
             num == SumOver([i \in 1..Len(ceps) |-> xs[i] * inv[i]], Len(ceps))
         IN  Flt(RoundDiv(num, SumOver(inv, Len(ceps))), 2)

FetchDyn ==
    /\ pc = "fetch"
    /\ \E r \in DynResponses : response' = r
    /\ pc' = "parse"
    /\ stages' = Append(stages, "fetch")
    /\ UNCHANGED <<args, json_data, vi, data_arrays, ds, encoding, outcome,
                   stdout, disk, run, history>>

\* The position from the auxiliary samples; a payload without them is a
\* structural error.
ResolvePositionWeighted ==
    /\ pc = "position"
    /\ stages' = Append(stages, "position")
    /\ LET aux == json_data.aux
           ceps == [i \in 1..Len(aux) |-> aux[i].cep]
           lats == [i \in 1..Len(aux) |-> aux[i].latitude]
           lons == [i \in 1..Len(aux) |-> aux[i].longitude]
       IN  IF Len(aux) = 0
           THEN /\ Raise("StructuralMismatch")
                /\ UNCHANGED ds
           ELSE /\ ds' = AssignPosition(ds, WeightedMean(lats, ceps),
                                        WeightedMean(lons, ceps))
                /\ pc' = "metadata"
                /\ UNCHANGED <<outcome, history>>
    /\ UNCHANGED <<args, response, json_data, vi, data_arrays, encoding, stdout,
                   disk, run>>

NextDyn ==
    \/ FetchDyn
    \/ Parse
    \/ AssembleVariable
    \/ BuildDataset
    \/ ResolvePositionWeighted
    \/ ComposeMetadata
    \/ DeclareEncoding
    \/ Write

SpecDyn == Init /\ [][NextDyn]_vars

----
\* Properties.

Finished == 1..Len(history)

Wrote(h) == "write" \in Range(h.stages)

Fatal(h) == h.outcome \notin {"ok", "exit0"}

\* Every step of a complete run, in the order of the source.
FullPipeline ==
    <<"fetch", "parse">> \o [i \in 1..Len(variables) |-> "variable"]
        \o <<"dataset", "position", "metadata", "encoding", "write">>

IsPrefix(s, t) == Len(s) <= Len(t) /\ \A i \in 1..Len(s) : s[i] = t[i]

ZeroResultsBody == ~response.isJson /\ response.text = "0 results"

\* C1: when the body is not JSON and is exactly '0 results', every run ends with
\* exit status 0 having printed the message naming the station and the range,
\* the writer is never called and no file exists; a second run of the same
\* invocation ends exactly as the first did.
C1_ZeroResultsExit ==
    ZeroResultsBody =>
        /\ \A i \in Finished :
            /\ history[i].outcome = "exit0"
            /\ history[i].status = 0
            /\ history[i].printed =
                    <<args.spice \o " does not have any data for the provided date range "
                        \o args.start_ts \o "-" \o args.end_ts \o "!">>
            /\ ~Wrote(history[i])
            /\ history[i].disk = <<>>
            /\ history[i] = history[1]
        /\ "write" \notin Range(stages)
        /\ disk = <<>>

C1_Witness ==
    /\ ZeroResultsBody
    /\ Len(history) = 2
    /\ pc = "done"

\* C2: when the body is neither JSON nor exactly '0 results', every run ends with
\* the JSONDecodeError propagated (a failure status, not the empty-result exit and
\* not a normal completion), and the writer is never called.
C2_OtherTextRaises ==
    (pc # "fetch" /\ ~response.isJson /\ response.text # "0 results") =>
        /\ \A i \in Finished :
            /\ history[i].outcome = "JSONDecodeError"
            /\ history[i].status # 0
            /\ ~Wrote(history[i])
            /\ history[i].disk = <<>>
        /\ pc \in {"parse", "done"}
        /\ outcome \in {"running", "JSONDecodeError"}
        /\ disk = <<>>

C2_Witness ==
    /\ ~response.isJson
    /\ response.text = "0 results "
    /\ pc = "done"
    /\ Len(history) = 1

\* C3: the steps of a run are a prefix of fetch, parse, the four variables, dataset,
\* position, metadata, encoding, write (so one fetch, at most one write, the write
\* last and only after every earlier step ended without error), and a run that
\* ends in an exception has not called the writer and leaves no file.
C3_StageOrder ==
    /\ IsPrefix(stages, FullPipeline)
    /\ pc = "write" => (outcome = "running" /\ Len(stages) = Len(FullPipeline) - 1)
    /\ \A i \in Finished :
        /\ IsPrefix(history[i].stages, FullPipeline)
        /\ history[i].stages[1] = "fetch"
        /\ Wrote(history[i]) <=> history[i].outcome = "ok"
        /\ Fatal(history[i]) => history[i].disk = <<>>

C3_Witness ==
    /\ pc = "done"
    /\ outcome = "ok"
    /\ stages = FullPipeline
    /\ run = 2

\* The value of a number, for comparing an int with a float.
NumEq(a, b) ==
    /\ a.kind # "nan"
    /\ b.kind # "nan"
    /\ a.m * Pow10(b.e) = b.m * Pow10(a.e)

\* C4 (as claimed): for each assembled variable, a declared fill value F stands in
\* every null entry of the values and is the attribute _FillValue; with no fill
\* value declared the attribute is absent and the assembly goes on.
C4_FillValueClaim ==
    \A v \in DOMAIN data_arrays :
        LET items == json_data.series[v].items
            meta == json_data.metadata[v]
            arr == data_arrays[v]
        IN  IF meta.hasFill
            THEN /\ \A i \in 1..Len(items) :
                        items[i].v.null => NumEq(arr.data[i], meta.fill)
                 /\ "_FillValue" \in DOMAIN arr.attrs
                 /\ arr.attrs._FillValue = meta.fill
            ELSE /\ "_FillValue" \notin DOMAIN arr.attrs
                 /\ outcome # "KeyError"

SeriesOf(v) == response.doc.series[v]

StampsOf(v) == [i \in 1..Len(SeriesOf(v).items) |-> SeriesOf(v).items[i].t]

AllPresent == response.isJson /\ \A v \in VarSet : SeriesOf(v).present

SharedAxis == AllPresent /\ \A v, w \in VarSet : StampsOf(v) = StampsOf(w)

\* C5 (as claimed): each assembled variable has as many stamps as values, and a
\* payload whose four series differ in length or in stamps ends the run in an
\* error before the write.
C5_MismatchClaim ==
    /\ \A v \in DOMAIN data_arrays : Len(data_arrays[v].time) = Len(data_arrays[v].data)
    /\ (AllPresent /\ ~SharedAxis) =>
            /\ pc # "write"
            /\ \A i \in Finished : Fatal(history[i]) /\ ~Wrote(history[i])

\* C6: a JSON payload lacking any one of the four variables ends every run in a
\* KeyError, with a failure status, the writer not called and no file.
C6_MissingVariableFatal ==
    (pc # "fetch" /\ response.isJson /\ \E v \in VarSet : ~SeriesOf(v).present) =>
        /\ \A i \in Finished :
            /\ history[i].outcome = "KeyError"
            /\ history[i].status # 0
            /\ ~Wrote(history[i])
            /\ history[i].disk = <<>>
        /\ pc \in {"parse", "assemble", "done"}
        /\ disk = <<>>

C6_Witness ==
    /\ response.isJson
    /\ ~SeriesOf("air_pressure").present
    /\ \A v \in VarSet \ {"air_pressure"} : SeriesOf(v).present /\ Len(SeriesOf(v).items) = 2
    /\ \A v \in VarSet : response.doc.metadata[v].hasFill
    /\ pc = "done"

\* The table of lines 52-56 as the texts str() gives.
PositionText ==
    [s \in DOMAIN stored_positions |->
        CASE s = "SPICE34" -> <<"77.08636", "15.62725">>
          [] s = "SPICE35" -> <<"77.06198", "15.20614">>
          [] s = "SPICE36" -> <<"78.6765", "12.0399">>
          [] s = "SPICE37" -> <<"-999", "-999">>
          [] OTHER -> <<"77.51715", "14.39992">>]

PositionSet(d) == d.lat # <<>> /\ d.lon # <<>>

\* C7: once the position is resolved, lat and lon of the dataset are the table
\* entry of the station whatever the payload, -999 included; resolving it never
\* ends the run; and the four geospatial attributes are the texts of that pair,
\* min equal to max.
C7_FixedPosition ==
    /\ pc \in {"metadata", "encoding", "write"} \/ (pc = "done" /\ outcome = "ok") =>
        /\ PositionSet(ds)
        /\ ds.lat[1].value = stored_positions[args.spice][1]
        /\ ds.lon[1].value = stored_positions[args.spice][2]
    /\ \A i \in Finished :
        Fatal(history[i]) => history[i].stages[Len(history[i].stages)] # "position"
    /\ disk # <<>> =>
        LET d == disk[1].dataset
        IN  /\ d.lat[1].value = stored_positions[args.spice][1]
            /\ d.lon[1].value = stored_positions[args.spice][2]
            /\ d.attrs[1].geospatial_lat_min = PositionText[args.spice][1]
            /\ d.attrs[1].geospatial_lat_max = PositionText[args.spice][1]
            /\ d.attrs[1].geospatial_lon_min = PositionText[args.spice][2]
            /\ d.attrs[1].geospatial_lon_max = PositionText[args.spice][2]

C7_Witness ==
    /\ args.spice = "SPICE37"
    /\ pc = "done"
    /\ outcome = "ok"
    /\ disk # <<>>
    /\ disk[1].dataset.lat[1].value = Int_(-999)
    /\ disk[1].dataset.attrs[1].geospatial_lon_max = "-999"

\* The stamps of the model as whole-second UTC texts.
UTCText(t) ==
    CASE t = 1704067200 -> "2024-01-01T00:00:00Z"
      [] t = 1709251199 -> "2024-02-29T23:59:59Z"
      [] OTHER -> "?"

\* C8: in a written dataset time_coverage_start and time_coverage_end are the
\* first and the last stamp of its time axis as whole-second UTC texts, and when
\* the four series share one axis those are the first and last stamp of the
\* payload.
C8_TimeCoverage ==
    disk # <<>> =>
        LET d == disk[1].dataset
            n == Len(d.time)
        IN  /\ n > 0
            /\ d.attrs[1].time_coverage_start = UTCText(d.time[1].sec)
            /\ d.attrs[1].time_coverage_end = UTCText(d.time[n].sec)
            /\ SharedAxis =>
                LET T == StampsOf(variables[1])
                IN  /\ n = Len(T)
                    /\ d.attrs[1].time_coverage_start = UTCText(T[1])
                    /\ d.attrs[1].time_coverage_end = UTCText(T[Len(T)])

C8_Witness ==
    /\ disk # <<>>
    /\ SharedAxis
    /\ Len(StampsOf(variables[1])) = 2
    /\ disk[1].dataset.attrs[1].time_coverage_start = "2024-01-01T00:00:00Z"
    /\ disk[1].dataset.attrs[1].time_coverage_end = "2024-02-29T23:59:59Z"

\* The fields of a dataset: its variables, its time coordinate, lat and lon.
Fields(d) ==
    DOMAIN d.data_vars \cup {"time"}
        \cup (IF d.lat # <<>> THEN {"lat"} ELSE {})
        \cup (IF d.lon # <<>> THEN {"lon"} ELSE {})

\* C9: at the write, and in what the writer received, the encoding names every
\* field of the dataset, time as int32 and every other field as float32, and
\* the unlimited dimensions are exactly time.
C9_EncodingDeclared ==
    /\ pc = "write" =>
        /\ DOMAIN encoding = Fields(ds)
        /\ Fields(ds) = VarSet \cup {"time", "lat", "lon"}
        /\ encoding["time"].dtype = "int32"
        /\ \A f \in Fields(ds) \ {"time"} : encoding[f].dtype = "float32"
    /\ disk # <<>> =>
        /\ DOMAIN disk[1].encoding = Fields(disk[1].dataset)
        /\ disk[1].encoding["time"].dtype = "int32"
        /\ \A f \in Fields(disk[1].dataset) \ {"time"} :
                disk[1].encoding[f].dtype = "float32"
        /\ disk[1].unlimited_dims = {"time"}

C9_Witness ==
    /\ pc = "done"
    /\ outcome = "ok"
    /\ disk # <<>>
    /\ DOMAIN disk[1].encoding = VarSet \cup {"time", "lat", "lon"}

ZeroRadius == \E i \in 1..Len(response.doc.aux) : response.doc.aux[i].cep = 0

\* C10 (as claimed): for a station whose position is computed, the position is
\* never NaN, and a payload with a zero accuracy radius ends the run in a
\* DegenerateWeighting error before the write, leaving no file.
C10_DegenerateClaim ==
    /\ disk # <<>> =>
        /\ disk[1].dataset.lat[1].value.kind # "nan"
        /\ disk[1].dataset.lon[1].value.kind # "nan"
    /\ (pc = "done" /\ ZeroRadius) =>
        /\ disk = <<>>
        /\ \A i \in Finished :
            history[i].outcome = "DegenerateWeighting" /\ ~Wrote(history[i])

====
